---- MODULE Spec2Model ----
(***************************************************************************)
(* Model of scripts/ssh_socks5_proxy.py: a SOCKS5 CONNECT client used as   *)
(* an ssh ProxyCommand.  The program is the sequential process             *)
(*   __main__ -> socks5_connect -> forward_data                            *)
(* and its environment is the proxy (and the target behind it), the        *)
(* producer of standard input and the kernel buffers in between.           *)
(*                                                                         *)
(* Strings (sys.argv entries) are sequences of Unicode code points, byte   *)
(* strings are sequences of 0..255.                                        *)
(***************************************************************************)
EXTENDS Integers, Sequences, FiniteSets, TLC

\* ------------------------------------------------------------------------
\* Bounds of the model
\* ------------------------------------------------------------------------
MaxHostChars == 1
MaxTunnelBytes == 2
MaxStdinBytes == 2

\* ------------------------------------------------------------------------
\* Program constants
\* ------------------------------------------------------------------------
PROXY_HOST == "127.0.0.1"
PROXY_PORT == 10828
CHUNK == 8192

\* b"\x05\x01\x00"
GREETING == <<5, 1, 0>>
\* b"\x05\x01\x00\x03"
REQUEST_HEAD == <<5, 1, 0, 3>>

\* ------------------------------------------------------------------------
\* Sequence helpers
\* ------------------------------------------------------------------------
Min(a, b) == IF a < b THEN a ELSE b

Take(s, n) == SubSeq(s, 1, Min(n, Len(s)))

Drop(s, n) == SubSeq(s, Min(n, Len(s)) + 1, Len(s))

IsPrefix(s, t) == Len(s) <= Len(t) /\ SubSeq(t, 1, Len(s)) = s

\* Python slice b[1:2]: the second byte as a byte string, empty when absent
Slice12(b) == IF Len(b) >= 2 THEN <<b[2]>> ELSE <<>>

\* ------------------------------------------------------------------------
\* int(sys.argv[2]) on a string of code points: surrounding blanks (the
\* Unicode white space characters) are stripped, one optional sign, then
\* decimal digits of any script (the Unicode category Nd) which may be
\* separated by single underscores; more than MaxStrDigits digits are
\* refused.
\* ------------------------------------------------------------------------
IsSpace(c) ==
    c \in {9, 10, 11, 12, 13, 32, 133, 160, 5760, 8232, 8233, 8239, 8287,
           12288} \cup (8192..8202)

\* the code points of the digit zero of every script; the digits one to
\* nine follow each of them
DigitZeros ==
    {48, 1632, 1776, 1984, 2406, 2534, 2662, 2790, 2918, 3046, 3174, 3302,
     3430, 3558, 3664, 3792, 3872, 4160, 4240, 6112, 6160, 6470, 6608, 6784,
     6800, 6992, 7088, 7232, 7248, 42528, 43216, 43264, 43472, 43504, 43600,
     44016, 65296, 66720, 68912, 69734, 69872, 69942, 70096, 70384, 70736,
     70864, 71248, 71360, 71472, 71904, 72016, 72784, 73040, 73120, 92768,
     92864, 93008, 120782, 120792, 120802, 120812, 120822, 123200, 123632,
     125264, 130032}

IsDigit(c) == \E z \in DigitZeros : c \in z..(z + 9)

\* the value of a decimal digit
DigitVal(c) == c - (CHOOSE z \in DigitZeros : c \in z..(z + 9))

\* sys.get_int_max_str_digits()
MaxStrDigits == 4300

RECURSIVE StripL(_)
StripL(s) == IF s # <<>> /\ IsSpace(Head(s)) THEN StripL(Tail(s)) ELSE s

RECURSIVE StripR(_)
StripR(s) == IF s # <<>> /\ IsSpace(s[Len(s)])
             THEN StripR(SubSeq(s, 1, Len(s) - 1)) ELSE s

Unsigned(s) == IF s # <<>> /\ Head(s) \in {43, 45} THEN Tail(s) ELSE s

DigitsOk(d) ==
    /\ d # <<>>
    /\ \A i \in 1..Len(d) : IsDigit(d[i]) \/ d[i] = 95
    /\ \A i \in 1..Len(d) :
          d[i] = 95 => /\ i > 1 /\ i < Len(d)
                       /\ IsDigit(d[i - 1]) /\ IsDigit(d[i + 1])
    /\ Cardinality({i \in 1..Len(d) : d[i] # 95}) <= MaxStrDigits

RECURSIVE DigitsVal(_)
DigitsVal(d) ==
    IF d = <<>> THEN 0
    ELSE IF d[Len(d)] = 95 THEN DigitsVal(SubSeq(d, 1, Len(d) - 1))
    ELSE 10 * DigitsVal(SubSeq(d, 1, Len(d) - 1)) + DigitVal(d[Len(d)])

IntOk(s) == DigitsOk(Unsigned(StripR(StripL(s))))

IntVal(s) ==
    LET t == StripR(StripL(s))
    IN  IF t # <<>> /\ Head(t) = 45 THEN 0 - DigitsVal(Unsigned(t))
        ELSE DigitsVal(Unsigned(t))

\* ------------------------------------------------------------------------
\* target_host.encode(): UTF-8; lone surrogates cannot be encoded
\* ------------------------------------------------------------------------
Utf8(cp) ==
    IF cp < 128 THEN <<cp>>
    ELSE IF cp < 2048 THEN <<192 + (cp \div 64), 128 + (cp % 64)>>
    ELSE IF cp < 65536
         THEN <<224 + (cp \div 4096), 128 + ((cp \div 64) % 64),
                128 + (cp % 64)>>
    ELSE <<240 + (cp \div 262144), 128 + ((cp \div 4096) % 64),
           128 + ((cp \div 64) % 64), 128 + (cp % 64)>>

\* the encodings of the characters, concatenated in order (by halves, which
\* keeps the recursion shallow on long names)
RECURSIVE Encode(_)
Encode(s) ==
    IF s = <<>> THEN <<>>
    ELSE IF Len(s) = 1 THEN Utf8(s[1])
    ELSE LET h == Len(s) \div 2
         IN  Encode(SubSeq(s, 1, h)) \o Encode(SubSeq(s, h + 1, Len(s)))

EncodeOk(s) == \A i \in 1..Len(s) : s[i] \notin 55296..57343

\* struct.pack(">H", port)
PackH(port) == <<port \div 256, port % 256>>

PackHOk(port) == port \in 0..65535

\* bytes([len(target_host)]): the number of characters of the string
LenByte(host) == <<Len(host)>>

LenByteOk(host) == Len(host) \in 0..255

\* lines 45-50
BuildRequest(host, port) ==
    REQUEST_HEAD \o LenByte(host) \o Encode(host) \o PackH(port)

\* ------------------------------------------------------------------------
\* Exceptions
\* ------------------------------------------------------------------------
NoExc == [type |-> "none", msg |-> "", status |-> -1]

Exc(t, m) == [type |-> t, msg |-> m, status |-> -1]

\* a check that only notices a missing method byte
MethodRejected_OnlyAbsent(response) == Slice12(response) = <<>>

\* line 39
MethodRejected(response) == Slice12(response) # <<0>>

\* line 55
ConnectRejected(response) == Slice12(response) # <<0>>

\* line 56: the f-string reads response[1]; IndexError on a reply shorter
\* than two bytes
ConnectError(response) ==
    IF Len(response) >= 2
    THEN [type |-> "Exception", msg |-> "SOCKS5 connection failed",
          status |-> response[2]]
    ELSE Exc("IndexError", "index out of range")

\* ------------------------------------------------------------------------
\* Inputs
\* ------------------------------------------------------------------------
SeqsUpTo(S, n) == UNION {[1..k -> S] : k \in 0..n}

\* "a" and U+00E9
HostChars == {97, 233}

LongHosts == {[i \in 1..255 |-> 97], [i \in 1..256 |-> 97],
              [i \in 1..128 |-> 233]}

Hosts == SeqsUpTo(HostChars, MaxHostChars) \cup LongHosts

\* a literal of one digit more than int() converts
LongPort == [i \in 1..(MaxStrDigits + 1) |-> 49]

\* "443", " 65_536 ", "-1", "4x", "", "4_", U+00A0 before 443 in
\* Arabic-Indic digits, and the long literal
PortArgs == {<<52, 52, 51>>, <<32, 54, 53, 95, 53, 51, 54, 32>>,
             <<45, 49>>, <<52, 120>>, <<>>, <<52, 95>>,
             <<160, 1636, 1636, 1635>>, LongPort}

ProgName == <<112>>

Argvs == {<<ProgName, h, <<52, 52, 51>>>> : h \in Hosts}
         \cup {<<ProgName, <<97>>, p>> : p \in PortArgs}
         \cup {<<ProgName>>, <<ProgName, <<97>>>>,
               <<ProgName, <<97>>, <<52, 52, 51>>, <<52, 52, 51>>>>}

\* replies of the proxy
MethodReplies == {<<5, 0>>, <<5, 255>>, <<4, 0>>}

Statuses == {0, 1, 5}

ConnReply(s) == <<5, s, 0, 1, 0, 0, 0, 0, 0, 0>>

TargetByte(i) == 200 + i

StdinByte(i) == 100 + i

VARIABLES
    argv,         \* sys.argv
    pc,           \* position of the process
    target_host,  \* line 91
    target_port,  \* line 92
    request,      \* line 45
    response,     \* lines 38, 54
    tunnel,       \* socks5_connect has returned sock
    readable,     \* line 66
    data,         \* lines 70, 77
    nDone,        \* bytes of data the write call in progress has passed on
    exc,          \* the exception being propagated
    exitCode,     \* process exit status, -1 while running
    diag,         \* messages printed, each with the stream it went to
    conns,        \* sock.connect calls
    sockSent,     \* bytes accepted by the socket, in order
    sndFull,      \* the peer is not accepting data: a send would block
    fault,        \* the call the process is in fails with an OSError
    sockIn,       \* bytes arrived on the socket and not yet received
    sockEof,      \* the peer has closed its half
    proxyPhase,   \* what the proxy is waiting for
    proxyOut,     \* bytes the proxy has written, not yet arrived
    proxyLog,     \* every byte the proxy has written
    hsRecv,       \* results of the recv calls of socks5_connect
    tunRecv,      \* bytes returned by sock.recv in forward_data
    stdinIn,      \* bytes readable on standard input
    stdinEof,     \* standard input was closed by its writer
    stdinFed,     \* number of bytes written to standard input so far
    stdinRead,    \* bytes returned by os.read in forward_data
    stdoutBuf,    \* bytes written to standard output
    outFull,      \* the reader of standard output is not reading: a write
                  \* would block
    eofSeen       \* forward_data has observed a zero-length read

progVars == <<argv, pc, target_host, target_port, request, response, tunnel,
              readable, data, nDone, exc, exitCode, diag>>

netVars == <<conns, sockSent, sndFull, fault, sockIn, sockEof, proxyPhase, proxyOut,
             proxyLog, hsRecv, tunRecv>>

stdVars == <<stdinIn, stdinEof, stdinFed, stdinRead, stdoutBuf, outFull,
             eofSeen>>

vars == <<progVars, netVars, stdVars>>

Init ==
    /\ argv \in Argvs
    /\ pc = "start"
    /\ target_host = <<>>
    /\ target_port = -1
    /\ request = <<>>
    /\ response = <<>>
    /\ tunnel = FALSE
    /\ readable = {}
    /\ data = <<>>
    /\ nDone = 0
    /\ exc = NoExc
    /\ exitCode = -1
    /\ diag = <<>>
    /\ conns = <<>>
    /\ sockSent = <<>>
    /\ sndFull = FALSE
    /\ fault = FALSE
    /\ sockIn = <<>>
    /\ sockEof = FALSE
    /\ proxyPhase = "idle"
    /\ proxyOut = <<>>
    /\ proxyLog = <<>>
    /\ hsRecv = <<>>
    /\ tunRecv = <<>>
    /\ stdinIn = <<>>
    /\ stdinEof = FALSE
    /\ stdinFed = 0
    /\ stdinRead = <<>>
    /\ stdoutBuf = <<>>
    /\ outFull = FALSE
    /\ eofSeen = FALSE

\* print(..., file=sys.stderr)
WriteDiag(stream, text) == diag' = Append(diag, [stream |-> stream, text |-> text])

\* ------------------------------------------------------------------------
\* __main__
\* ------------------------------------------------------------------------
\* a count check that lets extra arguments through
ArgcBad_TooFew(av) == Len(av) < 3

\* line 87
ArgcBad(av) == Len(av) # 3

\* lines 87-89
MainUsage ==
    /\ pc = "start"
    /\ ArgcBad(argv)
    /\ WriteDiag("stderr", "Usage")
    /\ exitCode' = 1
    /\ pc' = "exit"
    /\ UNCHANGED <<argv, nDone, target_host, target_port, request, response, tunnel,
                   readable, data, exc>>
    /\ UNCHANGED <<netVars, stdVars>>

\* lines 91-92; a ValueError of int() is outside the try block: the
\* interpreter prints the traceback on stderr and exits with status 1
MainArgs ==
    /\ pc = "start"
    /\ ~ArgcBad(argv)
    /\ target_host' = argv[2]
    /\ IF IntOk(argv[3])
       THEN /\ target_port' = IntVal(argv[3])
            /\ pc' = "connect"
            /\ UNCHANGED <<exc, exitCode, diag>>
       ELSE /\ exc' = Exc("ValueError", "invalid literal for int()")
            /\ WriteDiag("stderr", "Traceback")
            /\ exitCode' = 1
            /\ pc' = "exit"
            /\ UNCHANGED target_port
    /\ UNCHANGED <<argv, nDone, request, response, tunnel, readable, data>>
    /\ UNCHANGED <<netVars, stdVars>>

\* a handler that reports the error and runs the handshake again
MainExcept_Retry ==
    /\ pc = "main_except"
    /\ WriteDiag("stderr", "Proxy error")
    /\ pc' = "connect"
    /\ UNCHANGED <<argv, nDone, target_host, target_port, request, response, tunnel,
                   readable, data, exc, exitCode>>
    /\ UNCHANGED <<netVars, stdVars>>

\* lines 97-99
MainExcept ==
    /\ pc = "main_except"
    /\ WriteDiag("stderr", "Proxy error")
    /\ exitCode' = 1
    /\ pc' = "exit"
    /\ UNCHANGED <<argv, nDone, target_host, target_port, request, response, tunnel,
                   readable, data, exc>>
    /\ UNCHANGED <<netVars, stdVars>>

\* forward_data returned at line 96: the script ends, exit status 0
MainEnd ==
    /\ pc = "fwd_return"
    /\ exitCode' = 0
    /\ pc' = "exit"
    /\ UNCHANGED <<argv, nDone, target_host, target_port, request, response, tunnel,
                   readable, data, exc, diag>>
    /\ UNCHANGED <<netVars, stdVars>>

\* ------------------------------------------------------------------------
\* sock.sendall(d): returns once the socket has accepted every byte, blocks
\* while the peer accepts nothing, or raises after accepting a part
\* ------------------------------------------------------------------------
SendallOk(d) == ~sndFull /\ sockSent' = sockSent \o d

SendallErr(d) == \E k \in 0..(Len(d) - 1) : sockSent' = sockSent \o Take(d, k)

\* sock.recv(n) returns at most n of the bytes that have arrived, b"" once
\* the peer has closed and nothing is left, and blocks otherwise
RecvReady == sockIn # <<>> \/ sockEof

\* ------------------------------------------------------------------------
\* socks5_connect
\* ------------------------------------------------------------------------
\* lines 31-32
Connect ==
    /\ pc = "connect"
    /\ \/ /\ ~fault
          /\ UNCHANGED fault
          /\ conns' = Append(conns, [host |-> PROXY_HOST, port |-> PROXY_PORT,
                                      ok |-> TRUE])
          /\ proxyPhase' = "wait_greeting"
          /\ pc' = "greet"
          /\ UNCHANGED exc
       \/ /\ fault
          /\ fault' = FALSE
          /\ conns' = Append(conns, [host |-> PROXY_HOST, port |-> PROXY_PORT,
                                      ok |-> FALSE])
          /\ exc' = Exc("OSError", "connect")
          /\ pc' = "main_except"
          /\ UNCHANGED proxyPhase
    /\ UNCHANGED <<argv, nDone, target_host, target_port, request, response, tunnel,
                   readable, data, exitCode, diag>>
    /\ UNCHANGED <<sockSent, sndFull, sockIn, sockEof, proxyOut, proxyLog,
                   hsRecv, tunRecv>>
    /\ UNCHANGED stdVars

\* line 35
SendGreeting ==
    /\ pc = "greet"
    /\ \/ /\ ~fault
          /\ UNCHANGED fault
          /\ SendallOk(GREETING)
          /\ pc' = "recv_method"
          /\ UNCHANGED exc
       \/ /\ fault
          /\ fault' = FALSE
          /\ SendallErr(GREETING)
          /\ exc' = Exc("OSError", "sendall")
          /\ pc' = "main_except"
    /\ UNCHANGED <<argv, nDone, target_host, target_port, request, response, tunnel,
                   readable, data, exitCode, diag>>
    /\ UNCHANGED <<conns, sndFull, sockIn, sockEof, proxyPhase, proxyOut,
                   proxyLog, hsRecv, tunRecv>>
    /\ UNCHANGED stdVars

\* lines 38-40
RecvMethod ==
    /\ pc = "recv_method"
    /\ \/ /\ ~fault
          /\ UNCHANGED fault
          /\ RecvReady
          /\ response' = Take(sockIn, 2)
          /\ sockIn' = Drop(sockIn, 2)
          /\ hsRecv' = Append(hsRecv, response')
          /\ IF MethodRejected(response')
             THEN /\ exc' = Exc("Exception", "SOCKS5 proxy authentication failed")
                  /\ pc' = "main_except"
             ELSE /\ pc' = "build_request"
                  /\ UNCHANGED exc
       \/ /\ fault
          /\ fault' = FALSE
          /\ exc' = Exc("OSError", "recv")
          /\ pc' = "main_except"
          /\ UNCHANGED <<response, sockIn, hsRecv>>
    /\ UNCHANGED <<argv, nDone, target_host, target_port, request, tunnel,
                   readable, data, exitCode, diag>>
    /\ UNCHANGED <<conns, sockSent, sndFull, sockEof, proxyPhase, proxyOut,
                   proxyLog, tunRecv>>
    /\ UNCHANGED stdVars

\* lines 45-50: the operands are evaluated left to right, so the first one
\* that cannot be built decides the exception
MakeRequest ==
    /\ pc = "build_request"
    /\ IF ~LenByteOk(target_host)
       THEN /\ exc' = Exc("ValueError", "bytes must be in range(0, 256)")
            /\ pc' = "main_except"
            /\ UNCHANGED request
       ELSE IF ~EncodeOk(target_host)
       THEN /\ exc' = Exc("UnicodeEncodeError", "surrogates not allowed")
            /\ pc' = "main_except"
            /\ UNCHANGED request
       ELSE IF ~PackHOk(target_port)
       THEN /\ exc' = Exc("struct.error", "'H' format requires 0 <= number <= 65535")
            /\ pc' = "main_except"
            /\ UNCHANGED request
       ELSE /\ request' = BuildRequest(target_host, target_port)
            /\ pc' = "send_request"
            /\ UNCHANGED exc
    /\ UNCHANGED <<argv, nDone, target_host, target_port, response, tunnel,
                   readable, data, exitCode, diag>>
    /\ UNCHANGED <<netVars, stdVars>>

\* line 51
SendRequest ==
    /\ pc = "send_request"
    /\ \/ /\ ~fault
          /\ UNCHANGED fault
          /\ SendallOk(request)
          /\ pc' = "recv_reply"
          /\ UNCHANGED exc
       \/ /\ fault
          /\ fault' = FALSE
          /\ SendallErr(request)
          /\ exc' = Exc("OSError", "sendall")
          /\ pc' = "main_except"
    /\ UNCHANGED <<argv, nDone, target_host, target_port, request, response, tunnel,
                   readable, data, exitCode, diag>>
    /\ UNCHANGED <<conns, sndFull, sockIn, sockEof, proxyPhase, proxyOut,
                   proxyLog, hsRecv, tunRecv>>
    /\ UNCHANGED stdVars

\* lines 54-58; on success main calls forward_data(sock) at line 96
RecvReply ==
    /\ pc = "recv_reply"
    /\ \/ /\ ~fault
          /\ UNCHANGED fault
          /\ RecvReady
          /\ response' = Take(sockIn, 10)
          /\ sockIn' = Drop(sockIn, 10)
          /\ hsRecv' = Append(hsRecv, response')
          /\ IF ConnectRejected(response')
             THEN /\ exc' = ConnectError(response')
                  /\ pc' = "main_except"
                  /\ UNCHANGED tunnel
             ELSE /\ tunnel' = TRUE
                  /\ pc' = "select"
                  /\ UNCHANGED exc
       \/ /\ fault
          /\ fault' = FALSE
          /\ exc' = Exc("OSError", "recv")
          /\ pc' = "main_except"
          /\ UNCHANGED <<response, sockIn, hsRecv, tunnel>>
    /\ UNCHANGED <<argv, nDone, target_host, target_port, request,
                   readable, data, exitCode, diag>>
    /\ UNCHANGED <<conns, sockSent, sndFull, sockEof, proxyPhase, proxyOut,
                   proxyLog, tunRecv>>
    /\ UNCHANGED stdVars

\* ------------------------------------------------------------------------
\* forward_data
\* ------------------------------------------------------------------------
SockReady == sockIn # <<>> \/ sockEof

StdinReady == stdinIn # <<>> \/ stdinEof

\* line 66: select returns every source that is ready, and waits while
\* none is
ReadySet == (IF SockReady THEN {"sock"} ELSE {})
            \cup (IF StdinReady THEN {"stdin"} ELSE {})

\* line 71
SockEnds(d) == d = <<>>

\* a loop that keeps draining the tunnel after standard input has ended
StdinEnds_Never(d) == FALSE

\* line 78
StdinEnds(d) == d = <<>>

\* line 73: os.write returns the number of bytes it wrote, at least one and
\* at most all of them; the caller does not look at it
WriteCounts(d) == 1..Len(d)

\* a loop that serves standard input before the tunnel
FirstBranch_StdinFirst(r) == IF "stdin" \in r THEN "stdin_read" ELSE "sock_recv"

\* lines 69, 76: the branch of the socket comes first in the loop body
FirstBranch(r) == IF "sock" \in r THEN "sock_recv" ELSE "stdin_read"

\* lines 64-66
Select ==
    /\ pc = "select"
    /\ ReadySet # {}
    /\ readable' = ReadySet
    /\ pc' = FirstBranch(ReadySet)
    /\ UNCHANGED <<argv, nDone, target_host, target_port, request, response, tunnel,
                   data, exc, exitCode, diag>>
    /\ UNCHANGED <<netVars, stdVars>>

\* where the loop goes after the socket branch (lines 76, 64)
AfterSock == IF "stdin" \in readable THEN "stdin_read" ELSE "select"

\* lines 69-72
SockRecv ==
    /\ pc = "sock_recv"
    /\ \/ /\ ~fault
          /\ UNCHANGED fault
          /\ RecvReady
          /\ data' = Take(sockIn, CHUNK)
          /\ sockIn' = Drop(sockIn, CHUNK)
          /\ tunRecv' = tunRecv \o data'
          /\ IF SockEnds(data')
             THEN pc' = "fwd_return"
             ELSE pc' = "stdout_write"
          /\ eofSeen' = (eofSeen \/ data' = <<>>)
          /\ UNCHANGED exc
       \/ /\ fault
          /\ fault' = FALSE
          /\ exc' = Exc("OSError", "recv")
          /\ pc' = "fwd_except"
          /\ UNCHANGED <<data, sockIn, tunRecv, eofSeen>>
    /\ UNCHANGED <<argv, nDone, target_host, target_port, request, response, tunnel,
                   readable, exitCode, diag>>
    /\ UNCHANGED <<conns, sockSent, sndFull, sockEof, proxyPhase, proxyOut,
                   proxyLog, hsRecv>>
    /\ UNCHANGED <<stdinIn, stdinEof, stdinFed, stdinRead, stdoutBuf, outFull>>

\* line 73: os.write waits while the reader of standard output leaves no
\* room, passes on a part of data at a time, and returns once it has
\* written the count it reports (all of data, or less)
StdoutWrite ==
    /\ pc = "stdout_write"
    /\ \/ /\ ~fault
          /\ UNCHANGED fault
          /\ ~outFull
          /\ \E n \in WriteCounts(Drop(data, nDone)) :
                /\ stdoutBuf' = stdoutBuf \o SubSeq(data, nDone + 1, nDone + n)
                /\ \/ /\ pc' = AfterSock
                      /\ nDone' = 0
                   \/ /\ nDone + n < Len(data)
                      /\ pc' = pc
                      /\ nDone' = nDone + n
          /\ UNCHANGED exc
       \/ /\ fault
          /\ fault' = FALSE
          /\ exc' = Exc("OSError", "write")
          /\ pc' = "fwd_except"
          /\ nDone' = 0
          /\ UNCHANGED stdoutBuf
    /\ UNCHANGED <<argv, target_host, target_port, request, response, tunnel,
                   readable, data, exitCode, diag>>
    /\ UNCHANGED <<conns, sockSent, sndFull, sockIn, sockEof, proxyPhase,
                   proxyOut, proxyLog, hsRecv, tunRecv>>
    /\ UNCHANGED <<stdinIn, stdinEof, stdinFed, stdinRead, outFull, eofSeen>>

\* lines 76-79
StdinRead ==
    /\ pc = "stdin_read"
    /\ \/ /\ ~fault
          /\ UNCHANGED fault
          /\ StdinReady
          /\ data' = Take(stdinIn, CHUNK)
          /\ stdinIn' = Drop(stdinIn, CHUNK)
          /\ stdinRead' = stdinRead \o data'
          /\ IF StdinEnds(data')
             THEN pc' = "fwd_return"
             ELSE pc' = "sendall"
          /\ eofSeen' = (eofSeen \/ data' = <<>>)
          /\ UNCHANGED exc
       \/ /\ fault
          /\ fault' = FALSE
          /\ exc' = Exc("OSError", "read")
          /\ pc' = "fwd_except"
          /\ UNCHANGED <<data, stdinIn, stdinRead, eofSeen>>
    /\ UNCHANGED <<argv, nDone, target_host, target_port, request, response, tunnel,
                   readable, exitCode, diag>>
    /\ UNCHANGED <<conns, sockSent, sndFull, sockIn, sockEof, proxyPhase,
                   proxyOut, proxyLog, hsRecv, tunRecv>>
    /\ UNCHANGED <<stdinEof, stdinFed, stdoutBuf, outFull>>

\* line 80: sendall passes data on in parts, waits while the peer accepts
\* nothing, and returns once the socket has accepted all of it
SendData ==
    /\ pc = "sendall"
    /\ \/ /\ ~fault
          /\ UNCHANGED fault
          /\ ~sndFull
          /\ \E n \in 1..(Len(data) - nDone) :
                /\ sockSent' = sockSent \o SubSeq(data, nDone + 1, nDone + n)
                /\ IF nDone + n = Len(data)
                   THEN pc' = "select" /\ nDone' = 0
                   ELSE pc' = pc /\ nDone' = nDone + n
          /\ UNCHANGED exc
       \/ /\ fault
          /\ fault' = FALSE
          /\ SendallErr(Drop(data, nDone))
          /\ exc' = Exc("OSError", "sendall")
          /\ pc' = "fwd_except"
          /\ nDone' = 0
    /\ UNCHANGED <<argv, target_host, target_port, request, response, tunnel,
                   readable, data, exitCode, diag>>
    /\ UNCHANGED <<conns, sndFull, sockIn, sockEof, proxyPhase, proxyOut,
                   proxyLog, hsRecv, tunRecv>>
    /\ UNCHANGED stdVars

\* a handler that reports the error and goes on with the loop
FwdExcept_Continue ==
    /\ pc = "fwd_except"
    /\ WriteDiag("stderr", "Error forwarding data")
    /\ pc' = "select"
    /\ UNCHANGED <<argv, nDone, target_host, target_port, request, response, tunnel,
                   readable, data, exc, exitCode>>
    /\ UNCHANGED <<netVars, stdVars>>

\* a handler that reports the error and returns instead of re-raising
FwdExcept_Swallow ==
    /\ pc = "fwd_except"
    /\ WriteDiag("stderr", "Error forwarding data")
    /\ exc' = NoExc
    /\ pc' = "fwd_return"
    /\ UNCHANGED <<argv, nDone, target_host, target_port, request, response, tunnel,
                   readable, data, exitCode>>
    /\ UNCHANGED <<netVars, stdVars>>

\* lines 81-83: report, then re-raise to the caller
FwdExcept ==
    /\ pc = "fwd_except"
    /\ WriteDiag("stderr", "Error forwarding data")
    /\ pc' = "main_except"
    /\ UNCHANGED <<argv, nDone, target_host, target_port, request, response, tunnel,
                   readable, data, exc, exitCode>>
    /\ UNCHANGED <<netVars, stdVars>>

\* ------------------------------------------------------------------------
\* The environment: the proxy, the target behind it, the peer's receive
\* window, the reader of standard output and the writer of standard input.  Only what the process can
\* observe is modelled: the environment acts while the process is in, or
\* about to make, a call on the socket or on standard input (an exception
\* being propagated and the return of forward_data look at neither), the
\* bytes of the target and of standard input arrive one at a time (a larger
\* arrival is several of them with no step of the process in between),
\* standard input starts to matter when forward_data runs, and the send
\* window and the reader of standard output matter while the process is
\* inside sendall and os.write.
\* ------------------------------------------------------------------------
Alive == pc \notin {"exit", "main_except", "fwd_except", "fwd_return"}

\* the proxy has received a complete CONNECT request: 4 header bytes, the
\* length byte n, n address bytes and 2 port bytes after the greeting
ProxyHasRequest ==
    LET r == Drop(sockSent, Len(GREETING))
    IN  Len(r) >= 5 /\ Len(r) >= 5 + r[5] + 2

ProxyWrite(bytes) ==
    /\ proxyOut' = proxyOut \o bytes
    /\ proxyLog' = proxyLog \o bytes

\* the proxy answers the greeting (read by line 38)
ProxyReplyMethod ==
    /\ Alive
    /\ proxyPhase = "wait_greeting"
    /\ Len(sockSent) >= Len(GREETING)
    /\ \E r \in MethodReplies : ProxyWrite(r)
    /\ proxyPhase' = "wait_request"
    /\ UNCHANGED <<progVars, stdVars>>
    /\ UNCHANGED <<fault, conns, sockSent, sndFull, sockIn, sockEof, hsRecv, tunRecv>>

\* the proxy answers the CONNECT request (read by line 54)
ProxyReplyConnect ==
    /\ Alive
    /\ proxyPhase = "wait_request"
    /\ ProxyHasRequest
    /\ \E s \in Statuses :
          /\ ProxyWrite(ConnReply(s))
          /\ proxyPhase' = IF s = 0 THEN "relay" ELSE "rejected"
    /\ UNCHANGED <<progVars, stdVars>>
    /\ UNCHANGED <<fault, conns, sockSent, sndFull, sockIn, sockEof, hsRecv, tunRecv>>

\* bytes the target has sent through the proxy (read by line 70)
TargetSent == Drop(proxyLog, 12)

\* the next byte of the target arrives, behind the proxy's reply
TargetSend ==
    /\ Alive
    /\ proxyPhase = "relay"
    /\ proxyOut = <<>>
    /\ Len(TargetSent) < MaxTunnelBytes
    /\ sockIn' = Append(sockIn, TargetByte(Len(TargetSent) + 1))
    /\ proxyLog' = Append(proxyLog, TargetByte(Len(TargetSent) + 1))
    /\ UNCHANGED <<progVars, stdVars>>
    /\ UNCHANGED <<fault, conns, sockSent, sndFull, sockEof, proxyPhase, proxyOut,
                   hsRecv, tunRecv>>

\* length of the reply the proxy wrote last
ReplyLen == IF proxyPhase = "wait_request" THEN 2 ELSE 10

\* a reply of the proxy arrives at the socket whole, or in two segments
\* with its first or its last byte apart from the rest
ProxyDeliver ==
    /\ Alive
    /\ proxyOut # <<>>
    /\ \E k \in {1, Len(proxyOut) - 1, Len(proxyOut)} :
          /\ k >= 1
          /\ k < Len(proxyOut) => Len(proxyOut) = ReplyLen
          /\ sockIn' = sockIn \o Take(proxyOut, k)
          /\ proxyOut' = Drop(proxyOut, k)
    /\ UNCHANGED <<progVars, stdVars>>
    /\ UNCHANGED <<fault, conns, sockSent, sndFull, sockEof, proxyPhase, proxyLog,
                   hsRecv, tunRecv>>

\* the proxy closes the connection; what it had not yet put on the wire is
\* never sent
ProxyClose ==
    /\ Alive
    /\ proxyPhase \notin {"idle", "closed"}
    /\ sockEof' = TRUE
    /\ proxyLog' = Take(proxyLog, Len(proxyLog) - Len(proxyOut))
    /\ proxyOut' = <<>>
    /\ proxyPhase' = "closed"
    /\ UNCHANGED <<progVars, stdVars>>
    /\ UNCHANGED <<fault, conns, sockSent, sndFull, sockIn, hsRecv, tunRecv>>

\* the peer stops, or resumes, accepting what the process sends (lines 35,
\* 51, 80 block meanwhile)
PeerStall ==
    /\ pc = "sendall"
    /\ ~sndFull
    /\ sndFull' = TRUE
    /\ UNCHANGED <<progVars, stdVars>>
    /\ UNCHANGED <<fault, conns, sockSent, sockIn, sockEof, proxyPhase, proxyOut,
                   proxyLog, hsRecv, tunRecv>>

PeerResume ==
    /\ sndFull
    /\ sndFull' = FALSE
    /\ UNCHANGED <<progVars, stdVars>>
    /\ UNCHANGED <<fault, conns, sockSent, sockIn, sockEof, proxyPhase, proxyOut,
                   proxyLog, hsRecv, tunRecv>>

\* the reader of standard output stops, or resumes, reading (line 73 blocks
\* meanwhile)
ReaderStall ==
    /\ pc = "stdout_write"
    /\ ~outFull
    /\ outFull' = TRUE
    /\ UNCHANGED <<progVars, netVars>>
    /\ UNCHANGED <<stdinIn, stdinEof, stdinFed, stdinRead, stdoutBuf, eofSeen>>

ReaderResume ==
    /\ outFull
    /\ outFull' = FALSE
    /\ UNCHANGED <<progVars, netVars>>
    /\ UNCHANGED <<stdinIn, stdinEof, stdinFed, stdinRead, stdoutBuf, eofSeen>>

\* positions at which the process is inside a call on the socket or on
\* standard input or output
IoCalls == {"connect", "greet", "recv_method", "send_request", "recv_reply",
            "sock_recv", "stdout_write", "stdin_read", "sendall"}

\* the call the process is in fails (connection refused or reset, broken
\* pipe): lines 32, 35, 38, 51, 54, 70, 73, 77, 80 raise OSError
IoFault ==
    /\ pc \in IoCalls
    /\ ~fault
    /\ fault' = TRUE
    /\ UNCHANGED <<progVars, stdVars>>
    /\ UNCHANGED <<conns, sockSent, sndFull, sockIn, sockEof, proxyPhase,
                   proxyOut, proxyLog, hsRecv, tunRecv>>

\* the writer of standard input (read by line 77)
StdinFeed ==
    /\ Alive
    /\ tunnel
    /\ ~stdinEof
    /\ stdinFed < MaxStdinBytes
    /\ stdinIn' = Append(stdinIn, StdinByte(stdinFed + 1))
    /\ stdinFed' = stdinFed + 1
    /\ UNCHANGED <<progVars, netVars>>
    /\ UNCHANGED <<stdinEof, stdinRead, stdoutBuf, outFull, eofSeen>>

StdinClose ==
    /\ Alive
    /\ tunnel
    /\ ~stdinEof
    /\ stdinEof' = TRUE
    /\ UNCHANGED <<progVars, netVars>>
    /\ UNCHANGED <<stdinIn, stdinFed, stdinRead, stdoutBuf, outFull, eofSeen>>

\* ------------------------------------------------------------------------
\* Specification
\* ------------------------------------------------------------------------
ProgramStep ==
    \/ MainUsage \/ MainArgs \/ Connect \/ SendGreeting \/ RecvMethod
    \/ MakeRequest \/ SendRequest \/ RecvReply
    \/ Select \/ SockRecv \/ StdoutWrite \/ StdinRead \/ SendData
    \/ FwdExcept \/ MainExcept \/ MainEnd

EnvStep ==
    \/ ProxyReplyMethod \/ ProxyReplyConnect \/ TargetSend \/ ProxyDeliver
    \/ ProxyClose \/ PeerStall \/ PeerResume \/ ReaderStall \/ ReaderResume
    \/ IoFault
    \/ StdinFeed \/ StdinClose

Next == ProgramStep \/ EnvStep

Spec == Init /\ [][Next]_vars

\* the process runs whenever it is not blocked in a call, and a blocked call
\* completes when what it waits for happens; nothing obliges the
\* environment to act
FairSpec == Spec /\ SF_vars(ProgramStep)

\* ------------------------------------------------------------------------
\* Properties
\* ------------------------------------------------------------------------
\* the process is past the handshake reads of socks5_connect
MethodRead == Len(hsRecv) >= 1

ReplyRead == Len(hsRecv) = 2

\* both replies were read whole and both accept
CleanHandshake ==
    /\ ReplyRead
    /\ Len(hsRecv[1]) = 2 /\ hsRecv[1][2] = 0
    /\ Len(hsRecv[2]) = 10 /\ hsRecv[2][2] = 0

\* the replies of a proxy that accepts, as RFC 1928 writes them
ProperHandshake == hsRecv = <<(<<5, 0>>), ConnReply(0)>>

\* the handshake bytes of section 4.1, steps 2 and 4
WireHandshake(host, port) ==
    <<5, 1, 0>> \o <<5, 1, 0, 3>> \o <<Len(Encode(host))>> \o Encode(host)
    \o <<port \div 256, port % 256>>

\* what the process has sent on the tunnel after the handshake
FwdSent == Drop(sockSent, Len(GREETING) + Len(request))

AllDiagOnStderr == \A i \in 1..Len(diag) : diag[i].stream = "stderr"

\* C1: for a host of at most 255 encoded bytes and a port in 0..65535,
\* against a proxy whose two replies accept, socks5_connect returns the
\* connection and has sent exactly 05 01 00, 05 01 00 03, the byte length of
\* the encoded host, the host bytes and the port big-endian, nothing else.
C1_HandshakeBytes ==
    (/\ Len(argv) = 3
     /\ Len(Encode(target_host)) <= 255
     /\ target_port \in 0..65535)
    => /\ CleanHandshake => tunnel
       /\ (ProperHandshake /\ stdinRead = <<>>)
             => sockSent = WireHandshake(target_host, target_port)

\* C2: when the method byte of the proxy's method reply is not 0x00,
\* socks5_connect fails, the process never returns a tunnel, and the only
\* bytes ever sent on the connection are those of the 3-byte greeting.
C2_MethodRejectedNoConnect ==
    (Len(proxyLog) >= 2 /\ proxyLog[2] # 0)
    => /\ IsPrefix(sockSent, <<5, 1, 0>>)
       /\ ~tunnel
       /\ request = <<>>
       /\ MethodRead => /\ exc.type # "none"
                        /\ pc \in {"main_except", "exit"}
       /\ pc = "exit" => exitCode = 1

\* C2 witness: the proxy chose method 0xFF, the process read it, failed and
\* exited having sent the greeting only
C2_Witness ==
    /\ pc = "exit"
    /\ hsRecv = <<(<<5, 255>>)>>
    /\ exc = Exc("Exception", "SOCKS5 proxy authentication failed")
    /\ sockSent = <<5, 1, 0>>
    /\ exitCode = 1

\* the CONNECT reply the proxy has put on the wire (behind its 2-byte method
\* reply) carries a status byte other than 0x00
ProxyRefused == Len(proxyLog) >= 4 /\ proxyLog[4] # 0

\* C3: when the proxy's CONNECT reply carries a status byte s other than
\* 0x00 (its method reply 05 00 having been read), no tunnel is returned,
\* forward_data never runs, and once socks5_connect has read the reply it
\* has failed with an error that carries s, however the reply is split
\* across reads.
C3_ConnectRejectedStatus ==
    (ProxyRefused /\ hsRecv # <<>> /\ hsRecv[1] = <<5, 0>>)
    => /\ ~tunnel
       /\ readable = {} /\ data = <<>>
       /\ tunRecv = <<>> /\ stdinRead = <<>> /\ stdoutBuf = <<>>
       /\ ReplyRead
             => /\ exc = [type |-> "Exception",
                          msg |-> "SOCKS5 connection failed",
                          status |-> proxyLog[4]]
                /\ pc \in {"main_except", "exit"}
       /\ pc = "exit" => exitCode = 1

\* C4: a read of the method reply that delivers fewer than 2 bytes, or of
\* the CONNECT reply that delivers fewer than 10 bytes, makes socks5_connect
\* fail; it never returns a tunnel.
C4_ShortReadFails ==
    /\ (MethodRead /\ Len(hsRecv[1]) < 2)
          => (~tunnel /\ exc.type # "none" /\ Len(hsRecv) = 1)
    /\ (ReplyRead /\ hsRecv[1] = <<5, 0>> /\ Len(hsRecv[2]) < 10)
          => (~tunnel /\ exc.type # "none")

\* C5: standard output receives no byte unless the handshake has succeeded
\* (a rejected method, a rejected CONNECT or a short reply leave it empty),
\* and every diagnostic goes to the error stream.
C5_StdoutSilentOnFailure ==
    /\ AllDiagOnStderr
    /\ stdoutBuf # <<>> => CleanHandshake

\* C6: during forwarding (here after a handshake whose replies were read
\* whole) the bytes written to standard output are a prefix of the bytes
\* received from the tunnel, the bytes sent on the tunnel are a prefix of the
\* bytes read from standard input, and each chunk is written in full before
\* the next read of its direction.
C6_ForwardFidelity ==
    (tunnel /\ ProperHandshake)
    => /\ IsPrefix(stdoutBuf, tunRecv)
       /\ IsPrefix(FwdSent, stdinRead)
       /\ pc \in {"select", "sock_recv"} => stdoutBuf = tunRecv
       /\ pc \in {"select", "stdin_read"} => FwdSent = stdinRead

\* C7: the first zero-length read ends forward_data: it returns normally,
\* and from then on nothing is read from the tunnel or standard input and
\* nothing is written to standard output or the tunnel.
C7_EofEndsForwarding ==
    [][/\ eofSeen' => /\ pc' \in {"fwd_return", "exit"}
                      /\ exc' = NoExc
                      /\ exitCode' \in {-1, 0}
       /\ eofSeen => /\ stdoutBuf' = stdoutBuf
                     /\ sockSent' = sockSent
                     /\ tunRecv' = tunRecv
                     /\ stdinRead' = stdinRead
                     /\ IsPrefix(sockIn, sockIn')
                     /\ IsPrefix(stdinIn, stdinIn')]_vars

\* C7 witness: standard input ended while data of the tunnel was waiting;
\* the process exited with status 0 and left that data unread
C7_Witness ==
    /\ pc = "exit"
    /\ eofSeen
    /\ exitCode = 0
    /\ stdinEof
    /\ sockIn # <<>>
    /\ tunRecv # <<>>

\* C8: whenever the tunnel and standard input both have data available
\* (after a handshake whose replies were read whole), each of the two is
\* eventually read (unless the process ends), also while a write of the
\* other direction waits for its peer.
BothAvailable ==
    tunnel /\ ProperHandshake /\ Alive /\ sockIn # <<>> /\ stdinIn # <<>>

C8_BothServiced ==
    /\ BothAvailable ~> (sockIn = <<>> \/ pc = "exit")
    /\ BothAvailable ~> (stdinIn = <<>> \/ pc = "exit")

\* C9: the exit status is 0 exactly when forward_data ended by a clean
\* end-of-stream and 1 in every other terminating run (usage error,
\* unparsable port, handshake failure, forwarding error); no other status.
C9_ExitCodes ==
    /\ pc # "exit" => exitCode = -1
    /\ pc = "exit" =>
          /\ exitCode \in {0, 1}
          /\ exitCode = 0 <=> (tunnel /\ eofSeen /\ exc = NoExc)
          /\ exitCode = 1 <=> (Len(argv) # 3 \/ exc # NoExc)

\* C9 witness: a write error during forwarding, after bytes had already
\* been forwarded, ended the process with status 1
C9_Witness ==
    /\ pc = "exit"
    /\ tunnel
    /\ exc = Exc("OSError", "write")
    /\ stdoutBuf # <<>>
    /\ exitCode = 1

\* C10: with an argument count other than two, or a port that int() cannot
\* parse, the process reports on the error stream and exits nonzero without
\* any network activity: no connection is attempted and no byte is sent.
C10_UsageBeforeNetwork ==
    (Len(argv) # 3 \/ ~IntOk(argv[3]))
    => /\ conns = <<>>
       /\ sockSent = <<>>
       /\ proxyLog = <<>>
       /\ pc \in {"start", "exit"}
       /\ pc = "exit" => /\ exitCode = 1
                         /\ Len(diag) = 1
                         /\ diag[1].stream = "stderr"

\* C10 witness: three arguments with the port "4x": exit status 1 and no
\* connection
C10_Witness ==
    /\ pc = "exit"
    /\ Len(argv) = 3
    /\ argv[3] = <<52, 120>>
    /\ exitCode = 1
    /\ conns = <<>>
    /\ diag = <<[stream |-> "stderr", text |-> "Traceback"]>>

\* C11: an error that ends the process (usage, handshake or forwarding
\* error) is reported exactly once on the error stream: never more than one
\* diagnostic message, and exactly one when the exit status is 1 (forwarding
\* errors are taken after a handshake whose replies were read whole).
C11_ReportedOnce ==
    (tunnel => ProperHandshake)
    => /\ Len(diag) <= 1
       /\ AllDiagOnStderr
       /\ (pc = "exit" /\ exitCode = 1) => Len(diag) = 1

\* the CONNECT request on the wire: its length byte and the host bytes that
\* follow it (between the 5 leading bytes and the 2 port bytes)
WireLenByte == request[5]

WireHostBytes == Len(request) - 7

\* C12: a host whose encoded form is longer than 255 bytes is rejected
\* before a CONNECT request is built or sent, and no CONNECT request has a
\* length byte smaller than the number of host bytes that follow it (the
\* proxy's method reply being 05 00).
C12_LongHostRejected ==
    (MethodRead => hsRecv[1] = <<5, 0>>)
    => /\ (Len(argv) = 3 /\ Len(Encode(argv[2])) > 255)
             => /\ request = <<>>
                /\ IsPrefix(sockSent, <<5, 1, 0>>)
                /\ ~tunnel
       /\ request # <<>> => WireLenByte >= WireHostBytes

\* C13: when byte 0 of a 2-byte method reply is not 0x05, socks5_connect
\* fails as a rejected method negotiation and sends no CONNECT request, also
\* when byte 1 is 0x00.
C13_VersionChecked ==
    (MethodRead /\ Len(hsRecv[1]) = 2 /\ hsRecv[1][1] # 5)
    => /\ exc.type # "none"
       /\ pc \in {"main_except", "exit"}
       /\ request = <<>>
       /\ IsPrefix(sockSent, <<5, 1, 0>>)
       /\ ~tunnel

\* positions inside socks5_connect
HandshakePcs == {"connect", "greet", "recv_method", "build_request",
                 "send_request", "recv_reply"}

\* positions inside the loop of forward_data
ForwardPcs == {"select", "sock_recv", "stdout_write", "stdin_read", "sendall"}

\* the run has failed, or forwarding has seen the end of a stream
Ended == exc # NoExc \/ eofSeen \/ pc = "exit"

\* C14: the handshake runs to completion before forwarding starts and is
\* attempted at most once: nothing is read from standard input or the tunnel
\* loop and nothing is written to standard output before socks5_connect has
\* returned the connection, at most one connection to the proxy is opened,
\* and after a failure or the end of a stream there is no reconnection, no
\* further handshake step and nothing more is sent.
C14_HandshakeOnce ==
    /\ [](/\ Len(conns) <= 1
          /\ Len(hsRecv) <= 2
          /\ ~tunnel => /\ stdinRead = <<>> /\ stdoutBuf = <<>>
                        /\ tunRecv = <<>> /\ readable = {}
                        /\ pc \notin ForwardPcs
          /\ tunnel => /\ Len(hsRecv) = 2
                       /\ Len(conns) = 1 /\ conns[1].ok
                       /\ pc \notin HandshakePcs)
    /\ [][/\ conns # <<>> => conns' = conns
          /\ tunnel => (tunnel' /\ hsRecv' = hsRecv)
          /\ Ended => /\ conns' = conns
                      /\ hsRecv' = hsRecv
                      /\ sockSent' = sockSent
                      /\ tunnel' = tunnel
                      /\ pc' \notin HandshakePcs \cup ForwardPcs]_vars

\* C14 witness: the proxy refused the CONNECT request with status 5; the
\* process exited after its single connection, with nothing forwarded
C14_Witness ==
    /\ pc = "exit"
    /\ ReplyRead
    /\ hsRecv[2] = ConnReply(5)
    /\ Len(conns) = 1
    /\ ~tunnel
    /\ stdinRead = <<>>
    /\ stdoutBuf = <<>>

\* the byte b is one of the bytes the target sent behind the CONNECT reply
FromTarget(b) == \E j \in 1..Len(TargetSent) : TargetSent[j] = b

\* C15: after a successful handshake the connection is a transparent pipe:
\* every byte written to standard output is a byte the target sent after
\* the CONNECT reply, and no byte of the proxy's replies reaches standard
\* output, however the reply bytes are split across reads (the method reply
\* read being 05 00).
C15_TransparentPipe ==
    (MethodRead => hsRecv[1] = <<5, 0>>)
    => \A i \in 1..Len(stdoutBuf) : FromTarget(stdoutBuf[i])

\* forwarding is running and the tunnel's peer or the writer of standard
\* input has closed its stream
StreamEnded == /\ tunnel /\ ProperHandshake
               /\ pc \in ForwardPcs
               /\ (sockEof \/ stdinEof)

\* C16: once either side has reached end-of-stream during forwarding,
\* forward_data eventually terminates (returns or raises), also when unread
\* data remains on the other side or the consumer of the other direction
\* does not accept data.
C16_EofTerminates == StreamEnded ~> (pc \notin ForwardPcs)

\* a call of the forwarding loop has raised
FwdFailed == tunnel /\ exc # NoExc

\* C17: a read or write error on either side during forwarding ends the
\* operation at once: the failing step leaves the loop, no later step reads
\* from or writes to the tunnel, standard input or standard output, the
\* exception reaches the caller unchanged and the process exits with
\* status 1.
C17_ErrorEndsForwarding ==
    /\ [](FwdFailed => /\ pc \in {"fwd_except", "main_except", "exit"}
                       /\ exitCode \in {-1, 1}
                       /\ pc = "exit" => exitCode = 1)
    /\ [][/\ (~FwdFailed /\ FwdFailed') => pc' = "fwd_except"
          /\ (pc = "fwd_except" /\ pc' # pc) => pc' = "main_except"
          /\ FwdFailed => /\ exc' = exc
                          /\ stdoutBuf' = stdoutBuf
                          /\ sockSent' = sockSent
                          /\ tunRecv' = tunRecv
                          /\ stdinRead' = stdinRead
                          /\ sockIn' = sockIn
                          /\ stdinIn' = stdinIn
                          /\ pc' \notin ForwardPcs]_vars

\* C17 witness: sock.recv failed in the loop while data was waiting on the
\* tunnel and on standard input; the process exited with status 1 and left
\* both unread
C17_Witness ==
    /\ pc = "exit"
    /\ tunnel
    /\ exc = Exc("OSError", "recv")
    /\ sockIn # <<>>
    /\ stdinIn # <<>>
    /\ exitCode = 1

\* C18: in an iteration of the loop in which select reported both the
\* tunnel and standard input, the tunnel is read first: standard input is
\* read only after the tunnel chunk was written to standard output, and a
\* zero-length tunnel read ends the loop without reading standard input, so
\* what was ready there is never read or sent.
C18_TunnelFirst ==
    [][/\ (pc = "select" /\ pc' # pc /\ readable' = {"sock", "stdin"})
             => /\ pc' = "sock_recv"
                /\ stdinRead' = stdinRead
                /\ stdinIn' = stdinIn
       /\ (pc \in {"sock_recv", "stdout_write"} /\ "stdin" \in readable)
             => /\ stdinRead' = stdinRead
                /\ sockSent' = sockSent
                /\ IsPrefix(stdinIn, stdinIn')
       /\ (pc' = "stdin_read" /\ pc' # pc /\ "sock" \in readable')
             => /\ pc = "stdout_write"
                /\ stdoutBuf' # stdoutBuf
                /\ IsPrefix(stdoutBuf, stdoutBuf')
       /\ (pc = "sock_recv" /\ "stdin" \in readable /\ eofSeen')
             => /\ pc' = "fwd_return"
                /\ stdinRead' = stdinRead
                /\ sockSent' = sockSent
       /\ eofSeen => /\ stdinRead' = stdinRead
                     /\ sockSent' = sockSent]_vars

\* C18 witness: select reported both, the tunnel read was zero-length, and
\* the process exited with status 0 leaving the byte that was ready on
\* standard input unread and unsent
C18_Witness ==
    /\ pc = "exit"
    /\ exitCode = 0
    /\ readable = {"sock", "stdin"}
    /\ eofSeen
    /\ ~stdinEof
    /\ stdinIn = <<StdinByte(1)>>
    /\ stdinRead = <<>>
    /\ FwdSent = <<>>

====
